---- MODULE Spec2Model ----
(***************************************************************************)
(* Othello (src/game.py): the line-flipping engine, the move enumerator,   *)
(* the Bot strategies, the Human input loop and the Game state machine     *)
(* driven by Game.play.                                                    *)
(***************************************************************************)
EXTENDS Integers, Sequences, FiniteSets, TLC

VARIABLES board, current, game_over, winner, moves, players, pc, out,
          lastMove, lastInput, query, answer, script

vars == <<board, current, game_over, winner, moves, players, pc, out,
          lastMove, lastInput, query, answer, script>>

(* ---------------------------------------------------------------------- *)
(* Bounds of the exploration                                               *)
(* ---------------------------------------------------------------------- *)

\* random.choice is explored over all its outcomes for the first
\* MaxFreeMoves moves of a game, and over one outcome per move afterwards
MaxFreeMoves == 1

\* the human stops typing once MaxHumanMoves moves have been played
MaxHumanMoves == 2

\* pieces_flipped is called on its own with rows and columns from
\* -QueryMargin to 7 + QueryMargin
QueryMargin == 1

(* ---------------------------------------------------------------------- *)
(* Program constants                                                       *)
(* ---------------------------------------------------------------------- *)

BLACK == 0
WHITE == 1
\* Python's None, as a board cell and as Game.winner
None == 2
\* side of the board: range(8)
N == 8
\* Game.move ends the game when self.moves == 60
LastMove == 60

Symbols == {BLACK, WHITE}
EASY == "EASY"
MEDIUM == "MEDIUM"
HARD == "HARD"
Difficulties == {EASY, MEDIUM, HARD}
HUMAN == "HUMAN"

Rows == 0 .. (N - 1)
Cells == Rows \X Rows

\* all cells in the order of "for r in range(8) for c in range(8)"
CellList == [i \in 1 .. (N * N) |-> <<(i - 1) \div N, (i - 1) % N>>]

dirs == << <<-1, -1>>, <<-1, 0>>, <<-1, 1>>,
           <<0, -1>>,             <<0, 1>>,
           <<1, -1>>,  <<1, 0>>,  <<1, 1>> >>

CORNERS == << <<0, 0>>, <<0, 7>>, <<7, 0>>, <<7, 7>> >>

EDGES == [i \in 1 .. 8 |-> <<0, i - 1>>] \o [i \in 1 .. 8 |-> <<i - 1, 0>>]
         \o [i \in 1 .. 6 |-> <<7, i>>] \o [i \in 1 .. 6 |-> <<i, 7>>]

(* ---------------------------------------------------------------------- *)
(* Python helpers                                                          *)
(* ---------------------------------------------------------------------- *)

Range(s) == {s[i] : i \in 1 .. Len(s)}

\* 0 <= row < 8 and 0 <= col < 8
InBoard(row, col) == 0 <= row /\ row < 8 /\ 0 <= col /\ col < 8

\* a list index as Python resolves it: a negative index counts from the end
PyIndex(i) == IF i < 0 THEN i + N ELSE i

\* board[r][c]
At(b, r, c) == b[PyIndex(r)][PyIndex(c)]

\* the outcomes random.choice(seq) can produce
random_choice(seq) == Range(seq)

\* the cell of a set that has k cells of the set before it in row-major order
NthCell(S, k) ==
    CHOOSE m \in S : Cardinality({n \in S : n[1] * N + n[2] < m[1] * N + m[2]}) = k

(* ---------------------------------------------------------------------- *)
(* Player.pieces_flipped                                                   *)
(* ---------------------------------------------------------------------- *)

\* the while loop "collect opponent run": the line collected and the cell
\* the walk stops at
RECURSIVE CollectRun(_, _, _, _, _, _, _)
CollectRun(b, row, col, dr, dc, opponent_value, line) ==
    IF InBoard(row, col) /\ b[row][col] = opponent_value
    THEN CollectRun(b, row + dr, col + dc, dr, dc, opponent_value,
                    Append(line, <<row, col>>))
    ELSE [row |-> row, col |-> col, line |-> line]

\* the iteration without the test of the cell that ends the run
LineFlipped_NoEndTest(b, r, c, d, player_value) ==
    LET opponent_value == 1 - player_value
        row == r + d[1]
        col == c + d[2]
    IN  IF ~InBoard(row, col) THEN {}
        ELSE IF b[row][col] # opponent_value THEN {}
        ELSE Range(CollectRun(b, row, col, d[1], d[2], opponent_value, <<>>).line)

\* the iteration with White as the opponent of either colour
LineFlipped_OpponentWhite(b, r, c, d, player_value) ==
    LET opponent_value == WHITE
        row == r + d[1]
        col == c + d[2]
    IN  IF ~InBoard(row, col) THEN {}
        ELSE IF b[row][col] # opponent_value THEN {}
        ELSE LET w == CollectRun(b, row, col, d[1], d[2], opponent_value, <<>>)
             IN  IF InBoard(w.row, w.col) /\ b[w.row][w.col] = player_value
                 THEN Range(w.line)
                 ELSE {}

\* one iteration of "for dr, dc in dirs": the cells it adds to flips
LineFlipped(b, r, c, d, player_value) ==
    LET opponent_value == 1 - player_value
        row == r + d[1]
        col == c + d[2]
    IN  IF ~InBoard(row, col) THEN {}
        ELSE IF b[row][col] # opponent_value THEN {}
        ELSE LET w == CollectRun(b, row, col, d[1], d[2], opponent_value, <<>>)
             IN  IF InBoard(w.row, w.col) /\ b[w.row][w.col] = player_value
                 THEN Range(w.line)
                 ELSE {}

pieces_flipped(b, r, c, player_value) ==
    IF At(b, r, c) # None
    THEN {}
    ELSE UNION {LineFlipped(b, r, c, dirs[i], player_value) : i \in 1 .. Len(dirs)}

\* a call of pieces_flipped from outside: what it raises and what it returns.
\* The first read is board[r][c], which Python resolves for an index from -8
\* to 7 and refuses with IndexError for any other
pieces_flipped_call(b, r, c, player_value) ==
    IF r < 0 - N \/ r >= N \/ c < 0 - N \/ c >= N
    THEN [raised |-> "IndexError", value |-> {}]
    ELSE [raised |-> "", value |-> pieces_flipped(b, r, c, player_value)]

(* ---------------------------------------------------------------------- *)
(* Player.get_valid_moves: a dict, kept as the list of its (key, value)    *)
(* items in insertion order                                                *)
(* ---------------------------------------------------------------------- *)

DictKeys(d) == {d[i][1] : i \in 1 .. Len(d)}
DictKeyList(d) == [i \in 1 .. Len(d) |-> d[i][1]]
DictGet(d, k) == LET i == CHOOSE j \in 1 .. Len(d) : d[j][1] = k IN d[i][2]

\* get_valid_moves with range(7) for the rows
get_valid_moves_ShortRows(b, symbol) ==
    LET player_value == symbol
        items == [i \in 1 .. (Len(CellList) - N) |->
                    <<CellList[i],
                      IF b[CellList[i][1]][CellList[i][2]] = None
                      THEN pieces_flipped(b, CellList[i][1], CellList[i][2], player_value)
                      ELSE {}>>]
    IN  SelectSeq(items, LAMBDA e : e[2] # {})

get_valid_moves(b, symbol) ==
    LET player_value == symbol
        items == [i \in 1 .. Len(CellList) |->
                    <<CellList[i],
                      IF b[CellList[i][1]][CellList[i][2]] = None
                      THEN pieces_flipped(b, CellList[i][1], CellList[i][2], player_value)
                      ELSE {}>>]
    IN  SelectSeq(items, LAMBDA e : e[2] # {})

(* ---------------------------------------------------------------------- *)
(* Bot                                                                     *)
(* ---------------------------------------------------------------------- *)

\* what get_move returns for a pass (Python's None)
PassSentinel == <<>>

\* pseudo_cand of a candidate move: the empty in-board neighbours of the
\* squares the move affects
pseudo_cand(b, r, c, flipped) ==
    LET affected == {<<r, c>>} \cup flipped
    IN  {x \in {<<a[1] + dirs[i][1], a[2] + dirs[i][2]>> :
                    a \in affected, i \in 1 .. Len(dirs)} :
            InBoard(x[1], x[2]) /\ b[x[1]][x[2]] = None}

\* gives_corner without the test of the opponent's capture at the corner
gives_corner_NoCaptureTest(b, cand, human_value) ==
    \E i \in 1 .. Len(CORNERS) : CORNERS[i] \in cand

\* gives_corner of a candidate move
gives_corner(b, cand, human_value) ==
    \E i \in 1 .. Len(CORNERS) :
        /\ CORNERS[i] \in cand
        /\ pieces_flipped(b, CORNERS[i][1], CORNERS[i][2], human_value) # {}

\* "move = random.choice(pool); return move, valid_moves[move]"
ChooseFrom(pool, valid_moves) ==
    {<<move, DictGet(valid_moves, move)>> : move \in random_choice(pool)}

\* valid_corner: the corners that are valid moves, in the order of CORNERS
valid_corner(valid_moves) ==
    SelectSeq(CORNERS, LAMBDA x : x \in DictKeys(valid_moves))

\* possible_moves: for every valid move the size of its pseudo_cand
possible_moves(b, valid_moves) ==
    [i \in 1 .. Len(valid_moves) |->
        <<valid_moves[i][1],
          Cardinality(pseudo_cand(b, valid_moves[i][1][1], valid_moves[i][1][2],
                                  valid_moves[i][2]))>>]

\* valid_non_corner: the valid moves that do not give the opponent a corner
valid_non_corner(b, valid_moves, human_value) ==
    DictKeyList(SelectSeq(valid_moves, LAMBDA e :
        ~gives_corner(b, pseudo_cand(b, e[1][1], e[1][2], e[2]), human_value)))

\* valid_edges without the restriction to the cells of EDGES
valid_edges_AllMoves(valid_moves) ==
    DictKeyList(valid_moves)

\* valid_edges: the cells of EDGES that are valid moves
valid_edges(valid_moves) ==
    SelectSeq(EDGES, LAMBDA x : x \in DictKeys(valid_moves))

\* tied with the largest pseudo_cand in place of the smallest
tied_Largest(b, valid_moves) ==
    LET scores == possible_moves(b, valid_moves)
        best_score == CHOOSE s \in {scores[i][2] : i \in 1 .. Len(scores)} :
                        \A i \in 1 .. Len(scores) : s >= scores[i][2]
    IN  DictKeyList(SelectSeq(scores, LAMBDA e : e[2] = best_score))

\* tied: the valid moves with the smallest pseudo_cand
tied(b, valid_moves) ==
    LET scores == possible_moves(b, valid_moves)
        best_score == CHOOSE s \in {scores[i][2] : i \in 1 .. Len(scores)} :
                        \A i \in 1 .. Len(scores) : s <= scores[i][2]
    IN  DictKeyList(SelectSeq(scores, LAMBDA e : e[2] = best_score))

\* Bot._medium_strategy without its first stage
medium_strategy_NoCornerStage(b, valid_moves, human_value) ==
    LET safe == valid_non_corner(b, valid_moves, human_value)
        edges == valid_edges(valid_moves)
    IN  IF safe # <<>> THEN ChooseFrom(safe, valid_moves)
        ELSE IF edges # <<>> THEN ChooseFrom(edges, valid_moves)
        ELSE ChooseFrom(tied(b, valid_moves), valid_moves)

\* the set of values Bot._medium_strategy can return
medium_strategy(b, valid_moves, human_value) ==
    LET corners == valid_corner(valid_moves)
        safe == valid_non_corner(b, valid_moves, human_value)
        edges == valid_edges(valid_moves)
    IN  IF corners # <<>> THEN ChooseFrom(corners, valid_moves)
        ELSE IF safe # <<>> THEN ChooseFrom(safe, valid_moves)
        ELSE IF edges # <<>> THEN ChooseFrom(edges, valid_moves)
        ELSE ChooseFrom(tied(b, valid_moves), valid_moves)

\* Bot.get_move with an Easy choice that never takes the first valid move
Bot_get_move_EasySkipsFirst(b, bot_symbol, difficulty) ==
    LET valid_moves == get_valid_moves(b, bot_symbol)
        human_symbol == 1 - bot_symbol
    IN  IF valid_moves = <<>> THEN {PassSentinel}
        ELSE IF difficulty = EASY
             THEN ChooseFrom(Tail(DictKeyList(valid_moves)), valid_moves)
             ELSE medium_strategy(b, valid_moves, human_symbol)

\* Bot.get_move with the Medium strategy for Medium alone
Bot_get_move_HardIsEasy(b, bot_symbol, difficulty) ==
    LET valid_moves == get_valid_moves(b, bot_symbol)
        human_symbol == 1 - bot_symbol
    IN  IF valid_moves = <<>> THEN {PassSentinel}
        ELSE IF difficulty # MEDIUM
             THEN ChooseFrom(DictKeyList(valid_moves), valid_moves)
             ELSE medium_strategy(b, valid_moves, human_symbol)

\* the set of values Bot.get_move can return
Bot_get_move(b, bot_symbol, difficulty) ==
    LET valid_moves == get_valid_moves(b, bot_symbol)
        human_symbol == 1 - bot_symbol
    IN  IF valid_moves = <<>> THEN {PassSentinel}
        ELSE IF difficulty = EASY
             THEN ChooseFrom(DictKeyList(valid_moves), valid_moves)
             ELSE medium_strategy(b, valid_moves, human_symbol)

(* ---------------------------------------------------------------------- *)
(* Human.get_move                                                          *)
(* ---------------------------------------------------------------------- *)

Digits == <<"0", "1", "2", "3", "4", "5", "6", "7", "8", "9">>
DigitValue(ch) == (CHOOSE i \in 1 .. 10 : Digits[i] = ch) - 1
IsDigits(s) == Len(s) > 0 /\ \A i \in 1 .. Len(s) : s[i] \in Range(Digits)

\* int(text) raises ValueError unless text is an optionally signed run of digits
IsInt(s) ==
    IF Len(s) > 0 /\ s[1] \in {"-", "+"} THEN IsDigits(Tail(s)) ELSE IsDigits(s)

RECURSIVE DigitsValue(_)
DigitsValue(s) ==
    IF s = <<>> THEN 0
    ELSE 10 * DigitsValue(SubSeq(s, 1, Len(s) - 1)) + DigitValue(s[Len(s)])

\* int(text) for a text that parses
int(s) ==
    IF s[1] = "-" THEN 0 - DigitsValue(Tail(s))
    ELSE IF s[1] = "+" THEN DigitsValue(Tail(s))
    ELSE DigitsValue(s)

\* the texts typed at the prompts
InputTexts == {<<"2">>, <<"3">>, <<"4">>, <<"5">>, <<"8">>, <<"-", "1">>, <<"a">>}

MsgInteger == "Please enter an integer only"
MsgBounds == "Out of bounds. Try again."
MsgCell == "Please enter a valid empty cell"
MsgPass == "No valid moves must pass"
MsgTurn == "turn"

\* the iteration with a test of the cell being empty in place of the test of
\* the capture set
Human_get_move_AnyEmptyCell(b, symbol, rowText, colText) ==
    IF ~IsInt(rowText) \/ ~IsInt(colText)
    THEN [returns |-> FALSE, value |-> PassSentinel, msg |-> MsgInteger]
    ELSE LET row == int(rowText)
             col == int(colText)
         IN  IF ~InBoard(row, col)
             THEN [returns |-> FALSE, value |-> PassSentinel, msg |-> MsgBounds]
             ELSE LET flipped == pieces_flipped(b, row, col, symbol)
                  IN  IF b[row][col] = None
                      THEN [returns |-> TRUE, value |-> <<<<row, col>>, flipped>>,
                            msg |-> MsgTurn]
                      ELSE [returns |-> FALSE, value |-> PassSentinel, msg |-> MsgCell]

\* one iteration of the while True loop of Human.get_move on the texts typed
\* for the row and the column: whether it returns, what it returns and what
\* it prints
Human_get_move(b, symbol, rowText, colText) ==
    IF ~IsInt(rowText) \/ ~IsInt(colText)
    THEN [returns |-> FALSE, value |-> PassSentinel, msg |-> MsgInteger]
    ELSE LET row == int(rowText)
             col == int(colText)
         IN  IF ~InBoard(row, col)
             THEN [returns |-> FALSE, value |-> PassSentinel, msg |-> MsgBounds]
             ELSE LET flipped == pieces_flipped(b, row, col, symbol)
                  IN  IF flipped # {}
                      THEN [returns |-> TRUE, value |-> <<<<row, col>>, flipped>>,
                            msg |-> MsgTurn]
                      ELSE [returns |-> FALSE, value |-> PassSentinel, msg |-> MsgCell]

(* ---------------------------------------------------------------------- *)
(* Game                                                                    *)
(* ---------------------------------------------------------------------- *)

\* "for row in self.board for cell in row"
Flatten(b) == [i \in 1 .. (N * N) |-> b[CellList[i][1]][CellList[i][2]]]

\* sum(cell == symbol for cell in cells)
RECURSIVE CountEq(_, _)
CountEq(cells, symbol) ==
    IF cells = <<>> THEN 0
    ELSE (IF Head(cells) = symbol THEN 1 ELSE 0) + CountEq(Tail(cells), symbol)

\* what is left of a generator after a loop has run over it to the end
Exhausted(cells) == SubSeq(cells, Len(cells) + 1, Len(cells))

\* Game._find_winner: cells is one generator, read by two sums in turn
find_winner(b) ==
    LET cells == Flatten(b)
        black == CountEq(cells, BLACK)
        white == CountEq(Exhausted(cells), WHITE)
    IN  IF black = white THEN None
        ELSE IF black > white THEN BLACK ELSE WHITE

\* the board after the loop over flipped alone
Placed_NoTarget(b, row, col, flipped, symbol) ==
    [r \in Rows |-> [c \in Rows |-> IF <<r, c>> \in flipped THEN symbol ELSE b[r][c]]]

\* the board after "self.board[row][col] = self.current" alone
Placed_TargetOnly(b, row, col, flipped, symbol) ==
    [r \in Rows |-> [c \in Rows |-> IF <<r, c>> = <<row, col>> THEN symbol ELSE b[r][c]]]

\* the board after "self.board[row][col] = self.current" and the loop over flipped
Placed(b, row, col, flipped, symbol) ==
    [r \in Rows |-> [c \in Rows |->
        IF <<r, c>> = <<row, col>> \/ <<r, c>> \in flipped THEN symbol ELSE b[r][c]]]

\* Game.move with the end of the game one move late
move_EndsLate(row, col, flipped) ==
    LET b == Placed(board, row, col, flipped, current)
    IN  /\ board' = b
        /\ moves' = moves + 1
        /\ IF moves + 1 = LastMove + 1
           THEN /\ game_over' = TRUE
                /\ winner' = find_winner(b)
                /\ current' = current
           ELSE /\ current' = 1 - current
                /\ UNCHANGED <<game_over, winner>>
        /\ lastMove' = <<<<row, col>>, flipped>>

\* Game.move without the change of turn
move_KeepsTurn(row, col, flipped) ==
    LET b == Placed(board, row, col, flipped, current)
    IN  /\ board' = b
        /\ moves' = moves + 1
        /\ IF moves + 1 = LastMove
           THEN /\ game_over' = TRUE
                /\ winner' = find_winner(b)
                /\ current' = current
           ELSE /\ current' = current
                /\ UNCHANGED <<game_over, winner>>
        /\ lastMove' = <<<<row, col>>, flipped>>

\* Game.move
move(row, col, flipped) ==
    LET b == Placed(board, row, col, flipped, current)
    IN  /\ board' = b
        /\ moves' = moves + 1
        /\ IF moves + 1 = LastMove
           THEN /\ game_over' = TRUE
                /\ winner' = find_winner(b)
                /\ current' = current
           ELSE /\ current' = 1 - current
                /\ UNCHANGED <<game_over, winner>>
        /\ lastMove' = <<<<row, col>>, flipped>>

\* the board with the two colours exchanged
StartBoard_Swapped ==
    [r \in Rows |-> [c \in Rows |->
        IF <<r, c>> \in {<<3, 3>>, <<4, 4>>} THEN WHITE
        ELSE IF <<r, c>> \in {<<3, 4>>, <<4, 3>>} THEN BLACK
        ELSE None]]

\* Game.__init__: the board
StartBoard ==
    [r \in Rows |-> [c \in Rows |->
        IF <<r, c>> \in {<<3, 3>>, <<4, 4>>} THEN BLACK
        ELSE IF <<r, c>> \in {<<3, 4>>, <<4, 3>>} THEN WHITE
        ELSE None]]

\* the pairs of difficulties of the bot v bot games that are explored
BotPairs == {<<EASY, HARD>>, <<MEDIUM, EASY>>}

\* the players the main program builds: human v human, human (Black) v bot,
\* bot v bot
PlayerConfigs ==
    {[s \in Symbols |-> HUMAN]}
    \cup {[s \in Symbols |-> IF s = BLACK THEN HUMAN ELSE d] : d \in {MEDIUM}}
    \cup {[s \in Symbols |-> IF s = BLACK THEN dd[1] ELSE dd[2]] : dd \in BotPairs}

Init ==
    /\ board = StartBoard
    /\ players \in PlayerConfigs
    /\ current \in Symbols
    /\ game_over = FALSE
    /\ winner = None
    /\ moves = 0
    /\ pc = "play"
    /\ out = ""
    /\ lastMove = PassSentinel
    /\ lastInput = <<>>
    /\ query = <<>>
    /\ answer = <<>>
    /\ script = <<>>

\* the outcomes of the random choices that are explored: all of them during
\* the free moves, then the one the draw "number of moves played, modulo the
\* number of outcomes" selects
Explored(results) ==
    IF moves < MaxFreeMoves THEN results
    ELSE LET cells == {y[1] : y \in results}
         IN  {x \in results : x[1] = NthCell(cells, moves % Cardinality(cells))}

\* one iteration of the loop of Game.play, the current player a Bot with a move
BotMove ==
    /\ pc = "play" /\ ~game_over
    /\ players[current] \in Difficulties
    /\ LET results == Bot_get_move(board, current, players[current])
       IN  /\ PassSentinel \notin results
           /\ \E result \in Explored(results) : move(result[1][1], result[1][2], result[2])
    /\ out' = MsgTurn
    /\ UNCHANGED <<players, pc, lastInput, query, answer, script>>

\* one iteration of the loop of Game.play, the current player a Bot that
\* returns None: move is not called
BotPass ==
    /\ pc = "play" /\ ~game_over
    /\ players[current] \in Difficulties
    /\ PassSentinel \in Bot_get_move(board, current, players[current])
    /\ out' = MsgPass
    /\ UNCHANGED <<board, current, game_over, winner, moves, players, pc, lastMove, lastInput,
                   query, answer, script>>

\* the current player a Human: the texts typed are turned down and
\* Human.get_move asks again
HumanReject ==
    /\ pc = "play" /\ ~game_over
    /\ players[current] = HUMAN
    /\ moves < MaxHumanMoves
    /\ \E rowText \in InputTexts, colText \in InputTexts :
         LET it == Human_get_move(board, current, rowText, colText)
         IN  /\ ~it.returns
             /\ out' = it.msg
             /\ lastInput' = IF IsInt(rowText) THEN <<rowText, colText>> ELSE <<rowText>>
    /\ UNCHANGED <<board, current, game_over, winner, moves, players, pc, lastMove,
                   query, answer, script>>

\* the current player a Human: Human.get_move returns and Game.play calls move
HumanMove ==
    /\ pc = "play" /\ ~game_over
    /\ players[current] = HUMAN
    /\ moves < MaxHumanMoves
    /\ \E rowText \in InputTexts, colText \in InputTexts :
         LET it == Human_get_move(board, current, rowText, colText)
         IN  /\ it.returns
             /\ move(it.value[1][1], it.value[1][2], it.value[2])
             /\ out' = it.msg
             /\ lastInput' = <<rowText, colText>>
    /\ UNCHANGED <<players, pc, query, answer, script>>

\* Game.play after its loop: the result is printed
PlayEnd ==
    /\ pc = "play" /\ game_over
    /\ pc' = "done"
    /\ out' = IF winner = None THEN "Game is a draw"
              ELSE IF winner = BLACK THEN "Player Black wins!" ELSE "Player White wins!"
    /\ UNCHANGED <<board, current, game_over, winner, moves, players, lastMove, lastInput,
                   query, answer, script>>

Next == BotMove \/ BotPass \/ HumanReject \/ HumanMove \/ PlayEnd

Spec == Init /\ [][Next]_vars

(* ---------------------------------------------------------------------- *)
(* Calls of pieces_flipped and of Bot.get_move on the positions of games   *)
(* ---------------------------------------------------------------------- *)

\* games of two Easy bots as Game.play runs them: the colour that starts and
\* the cells played in turn
GameShort ==
    [start |-> WHITE,
     cells |-> << <<2, 3>>, <<2, 4>>, <<2, 5>>, <<1, 4>>, <<0, 5>>, <<0, 4>> >>]

GameMinimalExposure ==
    [start |-> BLACK,
     cells |-> << <<3, 5>>, <<2, 5>>, <<5, 3>>, <<5, 4>>, <<1, 5>>, <<1, 6>>,
                  <<5, 5>>, <<3, 2>>, <<2, 3>>, <<3, 6>>, <<2, 4>>, <<6, 2>>,
                  <<4, 5>>, <<5, 6>>, <<7, 1>>, <<5, 2>>, <<6, 3>>, <<7, 2>>,
                  <<3, 1>>, <<1, 4>>, <<1, 3>>, <<7, 0>>, <<6, 5>>, <<0, 3>>,
                  <<4, 7>>, <<2, 6>>, <<0, 5>>, <<6, 6>>, <<0, 2>>, <<2, 1>>,
                  <<7, 3>>, <<0, 1>>, <<2, 7>>, <<7, 6>>, <<7, 4>>, <<6, 7>>,
                  <<6, 4>>, <<4, 1>>, <<6, 1>>, <<1, 7>>, <<4, 6>>, <<0, 6>>,
                  <<0, 7>>, <<2, 2>>, <<5, 0>>, <<4, 2>>, <<3, 7>>, <<6, 0>>,
                  <<5, 7>>, <<7, 5>>, <<2, 0>>, <<1, 0>>, <<7, 7>>, <<4, 0>>,
                  <<3, 0>>, <<0, 4>>, <<1, 1>> >>]

GameEdges ==
    [start |-> WHITE,
     cells |-> << <<2, 3>>, <<2, 2>>, <<2, 1>>, <<1, 1>>, <<4, 5>>, <<1, 3>>,
                  <<2, 4>>, <<3, 1>>, <<0, 3>>, <<1, 5>>, <<3, 5>>, <<5, 3>>,
                  <<4, 0>>, <<4, 1>>, <<6, 3>>, <<2, 5>>, <<0, 5>>, <<4, 2>>,
                  <<5, 1>>, <<0, 4>>, <<1, 2>>, <<6, 4>>, <<3, 2>>, <<4, 6>>,
                  <<1, 4>>, <<0, 6>>, <<3, 6>>, <<1, 6>>, <<0, 7>>, <<7, 3>>,
                  <<5, 0>>, <<3, 7>>, <<5, 7>>, <<0, 2>>, <<1, 7>>, <<5, 5>>,
                  <<6, 5>>, <<5, 6>>, <<3, 0>>, <<7, 5>>, <<0, 0>>, <<2, 6>>,
                  <<0, 1>>, <<6, 0>>, <<5, 4>>, <<5, 2>>, <<2, 7>>, <<2, 0>>,
                  <<4, 7>>, <<1, 0>>, <<6, 1>> >>]

RecordedGames == {GameShort, GameMinimalExposure, GameEdges}

NoQuery == <<>>
NoAnswer == <<>>

\* a recorded game about to be played: script holds the outcomes that
\* random.choice will have
InitCalls ==
    /\ \E g \in RecordedGames :
         /\ current = g.start
         /\ script = g.cells
    /\ board = StartBoard
    /\ moves = 0
    /\ players = [s \in Symbols |-> EASY]
    /\ game_over = FALSE
    /\ winner = None
    /\ pc = "call"
    /\ out = ""
    /\ lastMove = PassSentinel
    /\ lastInput = <<>>
    /\ query = NoQuery
    /\ answer = NoAnswer

\* one iteration of the loop of Game.play in the recorded game: the Easy bot
\* to move draws the next cell of the script
PlayRecorded ==
    /\ pc = "call" /\ query = NoQuery
    /\ ~game_over
    /\ script # <<>>
    /\ \E result \in Bot_get_move(board, current, players[current]) :
         /\ result # PassSentinel
         /\ result[1] = Head(script)
         /\ move(result[1][1], result[1][2], result[2])
    /\ script' = Tail(script)
    /\ out' = MsgTurn
    /\ UNCHANGED <<players, pc, lastInput, query, answer>>

\* pieces_flipped(board, r, c, player_value) is called
CallPiecesFlipped ==
    /\ pc = "call" /\ query = NoQuery
    /\ \E r \in (0 - QueryMargin) .. (N - 1 + QueryMargin),
          c \in (0 - QueryMargin) .. (N - 1 + QueryMargin),
          player_value \in Symbols :
         /\ query' = <<"pieces_flipped", r, c, player_value>>
         /\ answer' = pieces_flipped_call(board, r, c, player_value)
    /\ UNCHANGED <<board, current, game_over, winner, moves, players, pc, out,
                   lastMove, lastInput, script>>

\* Bot(current, difficulty).get_move(board) is called
CallGetMove ==
    /\ pc = "call" /\ query = NoQuery
    /\ \E difficulty \in Difficulties :
         /\ query' = <<"get_move", current, difficulty>>
         /\ answer' = Bot_get_move(board, current, difficulty)
    /\ UNCHANGED <<board, current, game_over, winner, moves, players, pc, out,
                   lastMove, lastInput, script>>

\* the caller is done with what the call returned
CallReturns ==
    /\ pc = "call" /\ query # NoQuery
    /\ query' = NoQuery
    /\ answer' = NoAnswer
    /\ UNCHANGED <<board, current, game_over, winner, moves, players, pc, out,
                   lastMove, lastInput, script>>

NextCalls == PlayRecorded \/ CallPiecesFlipped \/ CallGetMove \/ CallReturns

SpecCalls == InitCalls /\ [][NextCalls]_vars

(* ---------------------------------------------------------------------- *)
(* Reference definitions used by the properties                            *)
(* ---------------------------------------------------------------------- *)

\* number of cells of the board that hold the symbol
CountCells(b, symbol) == Cardinality({x \in Cells : b[x[1]][x[2]] = symbol})

\* number of cells of the board that are not empty
Occupied(b) == Cardinality({x \in Cells : b[x[1]][x[2]] # None})

\* the j-th cell from (r, c) in direction d
Step(r, c, d, j) == <<r + j * d[1], c + j * d[2]>>

\* the j-th cell from (r, c) in direction d is on the board and holds the symbol
Holds(b, r, c, d, j, symbol) ==
    LET x == Step(r, c, d, j)
    IN  InBoard(x[1], x[2]) /\ b[x[1]][x[2]] = symbol

\* length of the maximal run of opponent cells that starts next to (r, c)
RunLength(b, r, c, d, opponent) ==
    CHOOSE k \in 0 .. N :
        /\ \A j \in 1 .. k : Holds(b, r, c, d, j, opponent)
        /\ ~Holds(b, r, c, d, k + 1, opponent)

\* the captures of the rule of the game in one direction
RefLine(b, r, c, d, player) ==
    LET k == RunLength(b, r, c, d, 1 - player)
    IN  IF k >= 1 /\ Holds(b, r, c, d, k + 1, player)
        THEN {Step(r, c, d, j) : j \in 1 .. k}
        ELSE {}

\* the capture set of the rule of the game
RefCapture(b, r, c, player) ==
    IF b[r][c] # None THEN {}
    ELSE UNION {RefLine(b, r, c, d, player) : d \in Range(dirs)}

\* the legal moves of a colour by the rule of the game
RefLegal(b, player) ==
    {x \in Cells : b[x[1]][x[2]] = None /\ RefCapture(b, x[1], x[2], player) # {}}

CornerSet == {<<0, 0>>, <<0, 7>>, <<7, 0>>, <<7, 7>>}

\* the cells 8-adjacent to a cell of the set
Adjacent(x, pieces) ==
    \E y \in pieces : x # y /\ x[1] - y[1] \in -1 .. 1 /\ x[2] - y[2] \in -1 .. 1

(* ---------------------------------------------------------------------- *)
(* Properties                                                              *)
(* ---------------------------------------------------------------------- *)

\* C1: once the game is over (the 60th move applied), winner is Black iff
\* Black holds strictly more cells than White, White iff White holds strictly
\* more, and None iff the counts are equal.
C1_WinnerByCount ==
    game_over =>
        LET black == CountCells(board, BLACK)
            white == CountCells(board, WHITE)
        IN  winner = (IF black > white THEN BLACK
                      ELSE IF white > black THEN WHITE ELSE None)

\* C2: for every cell and colour, pieces_flipped is the reference capture
\* set: per direction the maximal opponent run next to the cell, counted only
\* when a cell of the mover follows it on the board; nothing for a run that
\* ends at the edge or at an empty cell, and nothing for an occupied target.
C2_CaptureSetIsReference ==
    \A x \in Cells, p \in Symbols :
        pieces_flipped(board, x[1], x[2], p) = RefCapture(board, x[1], x[2], p)

\* an empty cell that captures in one direction while a run in another
\* direction ends at the edge and a run in a third ends at an empty cell
C2_Witness ==
    \E x \in Cells, p \in Symbols :
        /\ board[x[1]][x[2]] = None
        /\ pieces_flipped(board, x[1], x[2], p) # {}
        /\ \E d \in Range(dirs) :
             LET k == RunLength(board, x[1], x[2], d, 1 - p)
                 e == Step(x[1], x[2], d, k + 1)
             IN  k >= 1 /\ ~InBoard(e[1], e[2])
        /\ \E d \in Range(dirs) :
             LET k == RunLength(board, x[1], x[2], d, 1 - p)
             IN  k >= 1 /\ Holds(board, x[1], x[2], d, k + 1, None)

\* C3: the keys of get_valid_moves are exactly the empty cells with a
\* non-empty capture set, each key once and mapped to its pieces_flipped, and
\* the mapping is empty iff the colour has no legal move.
C3_ValidMovesAreLegalMoves ==
    \A p \in Symbols :
        LET vm == get_valid_moves(board, p)
            legal == {x \in Cells : /\ board[x[1]][x[2]] = None
                                    /\ pieces_flipped(board, x[1], x[2], p) # {}}
        IN  /\ DictKeys(vm) = legal
            /\ Cardinality(DictKeys(vm)) = Len(vm)
            /\ \A i \in 1 .. Len(vm) :
                 /\ board[vm[i][1][1]][vm[i][1][2]] = None
                 /\ vm[i][2] = pieces_flipped(board, vm[i][1][1], vm[i][1][2], p)
            /\ (vm = <<>>) <=> (legal = {})

\* one colour has no legal move, the other has legal moves on the last row
\* and in the last column
C3_Witness ==
    \E p \in Symbols :
        /\ get_valid_moves(board, p) = <<>>
        /\ \E x \in DictKeys(get_valid_moves(board, 1 - p)) : x[1] = 7
        /\ \E x \in DictKeys(get_valid_moves(board, 1 - p)) : x[2] = 7

\* C4: on the starting board (Black on (3,3) and (4,4), White on (3,4) and
\* (4,3)) the moves of Black are exactly (2,3), (3,2), (4,5), (5,4), each
\* with a capture set of one cell.
C4_OpeningMoves ==
    moves = 0 =>
        /\ {x \in Cells : board[x[1]][x[2]] = BLACK} = {<<3, 3>>, <<4, 4>>}
        /\ {x \in Cells : board[x[1]][x[2]] = WHITE} = {<<3, 4>>, <<4, 3>>}
        /\ LET vm == get_valid_moves(board, BLACK)
           IN  /\ DictKeys(vm) = {<<2, 3>>, <<3, 2>>, <<4, 5>>, <<5, 4>>}
               /\ \A i \in 1 .. Len(vm) : Cardinality(vm[i][2]) = 1

\* C4 as amended: on the starting board the moves of Black are exactly
\* (2,4), (3,5), (4,2), (5,3), each with a capture set of one cell.
C4_OpeningMovesAmended ==
    moves = 0 =>
        /\ {x \in Cells : board[x[1]][x[2]] = BLACK} = {<<3, 3>>, <<4, 4>>}
        /\ {x \in Cells : board[x[1]][x[2]] = WHITE} = {<<3, 4>>, <<4, 3>>}
        /\ LET vm == get_valid_moves(board, BLACK)
           IN  /\ DictKeys(vm) = {<<2, 4>>, <<3, 5>>, <<4, 2>>, <<5, 3>>}
               /\ \A i \in 1 .. Len(vm) : Cardinality(vm[i][2]) = 1

\* the game as constructed, Black to start
C4_Witness ==
    moves = 0 /\ current = BLACK /\ Len(get_valid_moves(board, BLACK)) = 4

\* C5: a move adds exactly 1 + |capture set| occupied cells to the board.
C5_OccupiedGrows ==
    [][moves' # moves =>
        Occupied(board') = Occupied(board) + 1 + Cardinality(lastMove'[2])]_vars

\* C5 as amended: a move adds exactly one occupied cell to the board, and
\* 1 + |capture set| cells to those of the mover.
C5_OccupiedGrowsByOne ==
    [][moves' # moves =>
        /\ Occupied(board') = Occupied(board) + 1
        /\ CountCells(board', current) =
             CountCells(board, current) + 1 + Cardinality(lastMove'[2])]_vars

\* a move that captured at least three cells has been applied
C5_Witness ==
    moves > 0 /\ Cardinality(lastMove[2]) >= 3

\* C6: the game is not over below 60 moves; at 60 moves it is over, a result
\* is set and the board is full.
C6_OverAtSixty ==
    /\ moves <= LastMove
    /\ moves < LastMove => ~game_over /\ winner = None
    /\ moves = LastMove =>
         /\ game_over
         /\ winner \in {BLACK, WHITE, None}
         /\ CountCells(board, BLACK) + CountCells(board, WHITE) = 64

\* a game has been played to its 60th move
C6_Witness ==
    moves = LastMove /\ game_over /\ Occupied(board) = 64

\* C7: in the loop of Game.play, when the game is in progress and the colour
\* to move has no legal move, the turn passes to the other colour and the
\* board, the move count and game_over stay as they are.
C7_PassSkipsTurn ==
    [][(pc = "play" /\ ~game_over /\ RefLegal(board, current) = {}) =>
        /\ current' = 1 - current
        /\ board' = board
        /\ moves' = moves
        /\ game_over' = game_over]_vars

\* C8: Bot.get_move returns the pass sentinel iff the colour has no legal
\* move; otherwise every result is a key of get_valid_moves paired with that
\* cell's capture set; with Easy every legal move is a possible result.
C8_BotMoveIsLegal ==
    \A s \in Symbols :
        LET keys == DictKeys(get_valid_moves(board, s))
        IN  \A d \in Difficulties :
                LET res == Bot_get_move(board, s, d)
                IN  /\ res # {}
                    /\ (PassSentinel \in res) <=> (keys = {})
                    /\ PassSentinel \in res => res = {PassSentinel}
                    /\ PassSentinel \notin res =>
                         /\ \A x \in res :
                              /\ x[1] \in keys
                              /\ x[2] = pieces_flipped(board, x[1][1], x[1][2], s)
                              /\ x[2] # {}
                         /\ d = EASY => {x[1] : x \in res} = keys

\* a board in the middle of a game on which one colour must pass and the
\* other has several moves
C8_Witness ==
    \E s \in Symbols :
        /\ moves < LastMove
        /\ Bot_get_move(board, s, MEDIUM) = {PassSentinel}
        /\ Bot_get_move(board, s, EASY) = {PassSentinel}
        /\ Cardinality(Bot_get_move(board, 1 - s, EASY)) >= 2
        /\ PassSentinel \notin Bot_get_move(board, 1 - s, HARD)

\* C9: when a corner is a legal move, the results of the Medium strategy
\* are exactly the legal corner moves.
C9_MediumTakesCorner ==
    \A s \in Symbols :
        LET vm == get_valid_moves(board, s)
            corners == CornerSet \cap RefLegal(board, s)
        IN  corners # {} =>
                {x[1] : x \in medium_strategy(board, vm, 1 - s)} = corners

\* it is the turn of a Medium bot for which a corner is a legal move next
\* to legal moves that are not corners
C9_Witness ==
    /\ ~game_over
    /\ players[current] = MEDIUM
    /\ CornerSet \cap DictKeys(get_valid_moves(board, current)) # {}
    /\ Cardinality(DictKeys(get_valid_moves(board, current)) \ CornerSet) >= 2

\* the integer a typed text stands for, 99 for a text that is not an integer
TypedValue(text) ==
    CASE text = <<"2">> -> 2
      [] text = <<"3">> -> 3
      [] text = <<"4">> -> 4
      [] text = <<"5">> -> 5
      [] text = <<"8">> -> 8
      [] text = <<"-", "1">> -> -1
      [] OTHER -> 99

\* the texts typed last are a legal move of the colour on the board
TypedLegal(b, typed, symbol) ==
    /\ Len(typed) = 2
    /\ TypedValue(typed[1]) \in Rows
    /\ TypedValue(typed[2]) \in Rows
    /\ b[TypedValue(typed[1])][TypedValue(typed[2])] = None
    /\ RefCapture(b, TypedValue(typed[1]), TypedValue(typed[2]), symbol) # {}

\* C10: Human.get_move returns only on an in-range empty cell with a
\* non-empty capture set, with exactly that cell and its capture set; any
\* other input is turned down with a message and the game is unchanged.
C10_HumanInputChecked ==
    [][(pc = "play" /\ ~game_over /\ players[current] = HUMAN) =>
        IF TypedLegal(board, lastInput', current)
        THEN /\ moves' = moves + 1
             /\ lastMove' = << <<TypedValue(lastInput'[1]), TypedValue(lastInput'[2])>>,
                               RefCapture(board, TypedValue(lastInput'[1]),
                                          TypedValue(lastInput'[2]), current) >>
        ELSE /\ UNCHANGED <<board, current, game_over, winner, moves, lastMove, pc>>
             /\ out' \in {MsgInteger, MsgBounds, MsgCell}]_vars

\* the human has been turned down on an occupied cell after a move was
\* accepted
C10_Witness ==
    /\ moves > 0
    /\ players[current] = HUMAN
    /\ out = MsgCell
    /\ Len(lastInput) = 2
    /\ board[TypedValue(lastInput[1])][TypedValue(lastInput[2])] # None

\* pieces_flipped has been called and has answered
AskedFlipped == query # NoQuery /\ query[1] = "pieces_flipped"

\* get_move has been called and has answered
AskedGetMove == query # NoQuery /\ query[1] = "get_move"

\* C11: a call of pieces_flipped with a target outside the board is turned
\* down: it raises nothing and produces no capture set.
C11_OutOfRangeRejected ==
    (AskedFlipped /\ ~InBoard(query[2], query[3])) =>
        answer.raised = "" /\ answer.value = {}

\* the board with Black and White exchanged on every occupied cell
colorSwap(b) ==
    [r \in Rows |-> [c \in Rows |-> IF b[r][c] = None THEN None ELSE 1 - b[r][c]]]

\* C12: for every cell of the board, pieces_flipped for Black is
\* pieces_flipped for White on the colour-swapped board (and the same with
\* the colours exchanged, the swap being its own inverse).
C12_ColourSymmetry ==
    (AskedFlipped /\ InBoard(query[2], query[3])) =>
        /\ answer.raised = ""
        /\ answer.value =
             pieces_flipped(colorSwap(board), query[2], query[3], 1 - query[4])

\* pieces_flipped has answered for Black with captures in two directions on
\* a board where White would capture nothing at that cell
C12_Witness ==
    /\ AskedFlipped /\ InBoard(query[2], query[3])
    /\ query[4] = BLACK
    /\ Cardinality({d \in Range(dirs) :
           RefLine(board, query[2], query[3], d, BLACK) # {}}) >= 2
    /\ answer.value # {}
    /\ RefCapture(board, query[2], query[3], WHITE) = {}

\* C13: the possible results of get_move of a Hard bot are those of a Medium
\* bot of the same colour on the same board.
C13_HardIsMedium ==
    (AskedGetMove /\ query[3] = HARD) =>
        answer = Bot_get_move(board, query[2], MEDIUM)

\* a Hard bot has answered on a board where an Easy bot has more results
C13_Witness ==
    /\ AskedGetMove /\ query[3] = HARD
    /\ answer # {PassSentinel}
    /\ answer # Bot_get_move(board, query[2], EASY)
    /\ Cardinality(answer) >= 2

\* the exposure set of a move: the empty cells next to the cell played or to
\* a captured cell
Exposure(b, m, symbol) ==
    {y \in Cells : /\ b[y[1]][y[2]] = None
                   /\ Adjacent(y, {m} \cup RefCapture(b, m[1], m[2], symbol))}

\* the move gifts a corner: a corner of its exposure set has a capture set
\* for the opponent
Rejected(b, m, symbol) ==
    \E x \in CornerSet :
        /\ x \in Exposure(b, m, symbol)
        /\ RefCapture(b, x[1], x[2], 1 - symbol) # {}

\* the cells of the outer rows and columns
OnBorder(m) == m[1] \in {0, N - 1} \/ m[2] \in {0, N - 1}

\* the cells returned by a call of get_move
AnswerCells == {x[1] : x \in answer}

\* C16: with no corner legal and at least one legal move that is not
\* rejected, the results of the Medium strategy are exactly the legal moves
\* that are not rejected.
C16_SafePoolIsNotRejected ==
    (AskedGetMove /\ query[3] = MEDIUM) =>
        LET legal == RefLegal(board, query[2])
            kept == {m \in legal : ~Rejected(board, m, query[2])}
        IN  (CornerSet \cap legal = {} /\ kept # {}) => AnswerCells = kept

\* a Medium bot has answered on a board with no legal corner, legal moves
\* that are rejected and several that are not
C16_Witness ==
    /\ AskedGetMove /\ query[3] = MEDIUM
    /\ LET legal == RefLegal(board, query[2])
           kept == {m \in legal : ~Rejected(board, m, query[2])}
       IN  /\ CornerSet \cap legal = {}
           /\ Cardinality(kept) >= 2
           /\ kept # legal

\* C18: with no corner legal, every legal move rejected and a legal move on
\* an outer row or column, the results of the Medium strategy are exactly the
\* legal moves on border cells that are not corners.
C18_EdgePool ==
    (AskedGetMove /\ query[3] = MEDIUM) =>
        LET legal == RefLegal(board, query[2])
        IN  (/\ CornerSet \cap legal = {}
             /\ \A m \in legal : Rejected(board, m, query[2])
             /\ \E m \in legal : OnBorder(m)) =>
                AnswerCells = {m \in legal : OnBorder(m) /\ m \notin CornerSet}

\* a Medium bot has answered from the edges on a board with two legal border
\* moves and a legal move inside
C18_Witness ==
    /\ AskedGetMove /\ query[3] = MEDIUM
    /\ LET legal == RefLegal(board, query[2])
       IN  /\ CornerSet \cap legal = {}
           /\ \A m \in legal : Rejected(board, m, query[2])
           /\ Cardinality({m \in legal : OnBorder(m)}) >= 2
           /\ \E m \in legal : ~OnBorder(m)

\* C19: with no corner legal, every legal move rejected and no legal move on
\* the border, the results of the Medium strategy are exactly the legal moves
\* whose exposure set is of the smallest size.
C19_MinimalExposurePool ==
    (AskedGetMove /\ query[3] = MEDIUM) =>
        LET legal == RefLegal(board, query[2])
            size(m) == Cardinality(Exposure(board, m, query[2]))
        IN  (/\ legal # {}
             /\ CornerSet \cap legal = {}
             /\ \A m \in legal : Rejected(board, m, query[2])
             /\ \A m \in legal : ~OnBorder(m)) =>
                AnswerCells = {m \in legal : \A n \in legal : size(m) <= size(n)}

\* a Medium bot has answered with the minimal exposure on a board whose
\* legal moves differ in exposure
C19_Witness ==
    /\ AskedGetMove /\ query[3] = MEDIUM
    /\ LET legal == RefLegal(board, query[2])
           size(m) == Cardinality(Exposure(board, m, query[2]))
       IN  /\ legal # {}
           /\ CornerSet \cap legal = {}
           /\ \A m \in legal : Rejected(board, m, query[2])
           /\ \A m \in legal : ~OnBorder(m)
           /\ \E m \in legal, n \in legal : size(m) < size(n)

\* C14: every Game.move adds exactly one to the move count; when the new
\* count is not 60 the turn goes to the other colour and the game stays in
\* progress, when it is 60 the game is over and the turn stays; the cell
\* played holds the colour that was to move.
C14_MoveAdvancesTurn ==
    [][moves' # moves =>
        /\ moves' = moves + 1
        /\ board'[lastMove'[1][1]][lastMove'[1][2]] = current
        /\ IF moves' # LastMove
           THEN current' = 1 - current /\ ~game_over' /\ ~game_over
           ELSE game_over' /\ ~game_over /\ current' = current]_vars

\* the 60th move has been played: the turn is still with the colour that
\* played it
C14_Witness ==
    /\ moves = LastMove
    /\ game_over
    /\ lastMove # PassSentinel
    /\ board[lastMove[1][1]][lastMove[1][2]] = current

\* C15: in a game of two bots every iteration of the loop of Game.play
\* changes the board, the turn or the move count, so that the loop cannot go
\* on for ever in one state and the game reaches game_over.
C15_BotGameProgresses ==
    [][(/\ players[BLACK] \in Difficulties
        /\ players[WHITE] \in Difficulties
        /\ pc = "play"
        /\ ~game_over) =>
            <<board, current, moves>>' # <<board, current, moves>>]_vars

\* C17: when a Medium bot for which no corner is legal plays a move of its
\* corner-safety pool, then on the board after the move no corner next to
\* the piece placed or to a piece flipped is a legal move of the opponent.
C17_SafeMoveGivesNoCorner ==
    [][(/\ moves' # moves
        /\ players[current] = MEDIUM
        /\ CornerSet \cap RefLegal(board, current) = {}
        /\ valid_non_corner(board, get_valid_moves(board, current), 1 - current) # <<>>) =>
            LET pieces == {lastMove'[1]} \cup lastMove'[2]
            IN  \A x \in CornerSet :
                    Adjacent(x, pieces) => RefCapture(board', x[1], x[2], 1 - current) = {}]_vars

\* C20: a move changes exactly the cell played and the cells of its capture
\* set, all of which take the colour of the mover; the mover gains
\* 1 + |capture set| cells, the opponent loses |capture set|, no occupied
\* cell becomes empty; a step without a move (a pass, an input turned down,
\* the end of play) leaves the board as it is.
C20_MoveFrame ==
    [][IF moves' # moves
       THEN LET target == lastMove'[1]
                captured == RefCapture(board, target[1], target[2], current)
                changed == {x \in Cells : board'[x[1]][x[2]] # board[x[1]][x[2]]}
            IN  /\ captured # {}
                /\ changed = {target} \cup captured
                /\ \A x \in changed : board'[x[1]][x[2]] = current
                /\ CountCells(board', current) =
                     CountCells(board, current) + 1 + Cardinality(captured)
                /\ CountCells(board', 1 - current) =
                     CountCells(board, 1 - current) - Cardinality(captured)
                /\ \A x \in Cells : board[x[1]][x[2]] # None => board'[x[1]][x[2]] # None
       ELSE board' = board]_vars

\* a bot has passed, a legality query without a move, on a board whose last
\* move captured cells of two rows and two columns
C20_Witness ==
    /\ out = MsgPass
    /\ moves > 0
    /\ \E x \in lastMove[2], y \in lastMove[2] :
         x[1] # y[1] /\ x[2] # y[2] /\ board[x[1]][x[2]] = board[y[1]][y[2]]

====
